---- MODULE Spec2Model ----
(***************************************************************************)
(* A model of owned-window-handle (src/src/lib.rs): OwnedWindowHandle, its *)
(* acquire (inc_refcount) and release (dec_refcount) protocol over the     *)
(* RawWindowHandle variants, the Wayland tracking adapter and the web      *)
(* canvas adapter, for every build configuration the cfg attributes of the *)
(* source distinguish.                                                     *)
(***************************************************************************)
EXTENDS Integers, Sequences, FiniteSets, TLC

VARIABLES
    target,            \* build: the compilation target family
    feature_wayland,   \* build: cargo feature "wayland"
    debug_assertions,  \* build: cfg(debug_assertions)
    kind,              \* the RawWindowHandle variant the windowing library hands out
    win,               \* the handle providers (source windows) and their platform object
    refcount,          \* platform reference count of each window's native object
    heap,              \* wasm-bindgen's table of JS references: slot -> object (0 = free)
    inst,              \* the OwnedWindowHandle values
    acquires,          \* per object: references this crate has taken
    releases,          \* per object: references this crate has given back
    freedUse,          \* an acquire or release has touched a freed or null payload
    panicked,          \* the program has panicked
    last,              \* the last operation and what it returned
    probe              \* a direct acquire/release call: its handle and both results

vars == <<target, feature_wayland, debug_assertions, kind, win, refcount, heap, inst,
          acquires, releases, freedUse, panicked, last, probe>>

build == <<target, feature_wayland, debug_assertions, kind>>

(***************************************************************************)
(* Bounds                                                                  *)
(***************************************************************************)
MaxWin == 1
MaxInst == 2

Wins == 1..MaxWin
Insts == 1..MaxInst
Slots == 1..(MaxWin + MaxInst)

(***************************************************************************)
(* Build configuration                                                     *)
(***************************************************************************)
Targets == {"linux", "windows", "android", "apple", "wasm"}

CfgAndroid == target = "android"
CfgApple == target = "apple"
CfgWasm == target = "wasm"
CfgWayland == feature_wayland /\ target = "linux"

(***************************************************************************)
(* Raw handles: a variant tag and its payload (an id, a pointer, or a      *)
(* wasm-bindgen slot index).  Pointer 0 is null.                           *)
(***************************************************************************)
NumericTags == {"Xlib", "Xcb", "Win32", "Drm"}
AppleTags == {"AppKit", "UiKit"}
WebTags == {"Web", "WebCanvas", "WebOffscreenCanvas"}
UnknownTags == {"Orbital"}
Tags == NumericTags \cup AppleTags \cup WebTags \cup UnknownTags
            \cup {"Wayland", "AndroidNdk"}

Raw(t, v) == [tag |-> t, val |-> v]
NoRaw == Raw("None", 0)

(***************************************************************************)
(* Errors: Error(Repr) and the panic outcome                               *)
(***************************************************************************)
Res(k, e, n, h) == [kind |-> k, expected |-> e, id |-> n, raw |-> h]
Ok == Res("Ok", "", 0, "")
\* Mutant: the conversion keeps only the fact that the provider failed.
RawErr_lossy(h) == Res("Raw", "", 0, "NotSupported")

\* impl From<HandleError> for Error
RawErr(h) == Res("Raw", "", 0, h)
PlatformMismatch(e) == Res("PlatformMismatch", e, 0, "")
MissingWebElements == Res("MissingWebElements", "", 0, "")
CanvasNotFound(n) == Res("CanvasNotFound", "", n, "")
RetainFailed == Res("RetainFailed", "", 0, "")
WaylandNotEnabled == Res("WaylandNotEnabled", "", 0, "")
WaylandNotRust == Res("WaylandNotRust", "", 0, "")
Panic == Res("Panic", "", 0, "")
NoRes == Res("None", "", 0, "")

(***************************************************************************)
(* The web selector: format!("canvas[data-raw-handle=\"{}\"", web.id)      *)
(***************************************************************************)
Digit(d) == CASE d = 0 -> "0" [] d = 1 -> "1" [] d = 2 -> "2" [] d = 3 -> "3"
              [] d = 4 -> "4" [] d = 5 -> "5" [] d = 6 -> "6" [] d = 7 -> "7"
              [] d = 8 -> "8" [] d = 9 -> "9"

RECURSIVE Decimal(_)
Decimal(n) == IF n < 10 THEN <<Digit(n)>> ELSE Decimal(n \div 10) \o <<Digit(n % 10)>>

SelectorHead == <<"canvas", "[", "data-raw-handle", "=", "\"">>

Selector(id) == SelectorHead \o Decimal(id) \o <<"\"">>

Count(s, c) == Cardinality({k \in 1..Len(s) : s[k] = c})

\* A strict selector parser rejects an attribute block that is never closed.
WellFormed(sel) == Count(sel, "[") = Count(sel, "]")

\* The attribute value a selector asks for, as a lenient parser reads it.
SelectorValue(sel) ==
    LET n == Len(SelectorHead)
        body == SubSeq(sel, n + 1, Len(sel))
        stop == IF \E k \in 1..Len(body) : body[k] = "\""
                THEN CHOOSE k \in 1..Len(body) :
                        body[k] = "\"" /\ \A j \in 1..(k-1) : body[j] # "\""
                ELSE Len(body) + 1
    IN  IF Len(sel) >= n /\ SubSeq(sel, 1, n) = SelectorHead
        THEN SubSeq(body, 1, stop - 1) ELSE <<>>

(***************************************************************************)
(* Platform objects                                                        *)
(***************************************************************************)
\* The id a web window publishes in its data-raw-handle attribute.
WebId(w) == 40 + w

\* late: how many handles of the window were dropped after the window itself.
NoWin == [state |-> "none", tag |-> "None", val |-> 0, attr |-> "ok", own |-> 0,
          late |-> 0]

\* How the platform answers for a handle of this kind in this build.
Attrs(t) ==
    CASE t = "Wayland" /\ CfgWayland -> {"ok", "bad_id", "no_data"}
      [] t \in AppleTags /\ CfgApple -> {"ok", "retain_nil"}
      [] t = "Web" /\ CfgWasm -> {"found", "absent", "strict", "no_window", "no_document"}
      [] OTHER -> {"ok"}

\* Kinds whose native object carries a reference count in this build.
Refcounted(t) ==
    \/ t = "AndroidNdk" /\ CfgAndroid
    \/ t \in AppleTags /\ CfgApple
    \/ t = "Wayland" /\ CfgWayland

\* Kinds whose payload is a slot of the JS reference table in this build.
Slotted(t) == t \in {"WebCanvas", "WebOffscreenCanvas"} /\ CfgWasm

FreeSlots(hp) == {s \in Slots : hp[s] = 0}
Alloc(hp) == IF FreeSlots(hp) = {} THEN 0
             ELSE CHOOSE s \in FreeSlots(hp) : \A t \in FreeSlots(hp) : s <= t

Put(hp, s, o) == IF s \in Slots THEN [hp EXCEPT ![s] = o] ELSE hp

\* The object a slot refers to (0: the slot is free or out of the table).
Deref(hp, s) == IF s \in Slots THEN hp[s] ELSE 0

\* The document's canvas carrying data-raw-handle = value, if any (0: none).
Lookup(value) ==
    LET hit == {w \in Wins : /\ win[w].state = "live"
                             /\ win[w].tag = "Web"
                             /\ win[w].attr \in {"found", "strict"}
                             /\ Decimal(WebId(w)) = value}
    IN  IF hit = {} THEN 0 ELSE CHOOSE w \in hit : TRUE

\* The window that published a web id (0: none).
WebOwner(id) ==
    LET hit == {w \in Wins : win[w].tag = "Web" /\ WebId(w) = id}
    IN  IF hit = {} THEN 0 ELSE CHOOSE w \in hit : TRUE

AttrOf(p) == IF p \in Wins THEN win[p].attr ELSE "ok"

(***************************************************************************)
(* Platform primitives                                                     *)
(***************************************************************************)
\* A reference taken on / given back to the native object at pointer p.
Retain(rc, p) == IF p \in Wins THEN [rc EXCEPT ![p] = @ + 1] ELSE rc
Release(rc, p) == IF p \in Wins /\ rc[p] > 0 THEN [rc EXCEPT ![p] = @ - 1] ELSE rc

\* The native object at pointer p is gone (or p is null).
Freed(rc, p) == p \notin Wins \/ rc[p] = 0

\* What acquire hands back: the result, the Impl built, and the platform after it.
Acq(res, imp, raw, rc, hp, query, bad) ==
    [res |-> res, imp |-> imp, raw |-> raw, rc |-> rc, hp |-> hp,
     acq |-> IF res = Ok THEN 1 ELSE 0, query |-> query, bad |-> bad]

AcqFail(res, query) == Acq(res, "None", NoRaw, refcount, heap, query, FALSE)

AcqDirect(raw, rc, hp, query, bad) == Acq(Ok, "Direct", raw, rc, hp, query, bad)

(***************************************************************************)
(* mod wayland                                                             *)
(***************************************************************************)
\* backend_from_ptr: a Backend for the display the proxy belongs to.
backend_from_ptr(rc, ptr) == Retain(rc, ptr)

\* Mutant: the Backend obtained first is kept when the provenance check fails.
clone_handle_leak(handle) ==
    IF ~CfgWayland THEN AcqFail(WaylandNotEnabled, <<>>)
    ELSE LET ptr == handle.val
             held == backend_from_ptr(refcount, ptr)
         IN  IF AttrOf(ptr) \in {"bad_id", "no_data"}
             THEN Acq(WaylandNotRust, "None", NoRaw, held, heap, <<>>, FALSE)
             ELSE Acq(Ok, "Wayland", Raw("Wayland", ptr), held, heap, <<>>, FALSE)

\* Mutant: the enabled module is compiled in every build.
clone_handle_always(handle) ==
    LET ptr == handle.val
        held == backend_from_ptr(refcount, ptr)
        dropped == Release(held, ptr)
    IN  IF AttrOf(ptr) \in {"bad_id", "no_data"}
        THEN Acq(WaylandNotRust, "None", NoRaw, dropped, heap, <<>>, FALSE)
        ELSE Acq(Ok, "Wayland", Raw("Wayland", ptr), held, heap, <<>>, FALSE)

\* clone_handle, in both builds of the module.  The Backend obtained first is
\* a local: every early return drops it again.
clone_handle(handle) ==
    IF ~CfgWayland THEN AcqFail(WaylandNotEnabled, <<>>)
    ELSE LET ptr == handle.val
             held == backend_from_ptr(refcount, ptr)
             dropped == Release(held, ptr)
         IN  IF AttrOf(ptr) = "bad_id"
             THEN Acq(WaylandNotRust, "None", NoRaw, dropped, heap, <<>>, FALSE)
             ELSE IF AttrOf(ptr) = "no_data"
             THEN Acq(WaylandNotRust, "None", NoRaw, dropped, heap, <<>>, FALSE)
             ELSE Acq(Ok, "Wayland", Raw("Wayland", ptr), held, heap, <<>>, FALSE)

\* ObjectId::as_ptr: null once the surface has been destroyed.
IdPtr(id) == IF id \in Wins /\ win[id].state = "live" THEN id ELSE 0

\* Mutant: the pointer seen at construction is handed out without a null check.
as_ptr_stale(handle) == [res |-> Ok, view |-> Raw("Wayland", handle.val)]

\* as_ptr: the view of a tracked Wayland handle.
as_ptr(handle) ==
    IF IdPtr(handle.val) = 0
    THEN [res |-> RawErr("Unavailable"), view |-> NoRaw]
    ELSE [res |-> Ok, view |-> Raw("Wayland", IdPtr(handle.val))]

(***************************************************************************)
(* inc_refcount                                                            *)
(***************************************************************************)
\* Mutant: the numeric arms take a reference on the id as if it were an object.
inc_refcount_retains(window) ==
    LET t == window.tag
        v == window.val
    IN  CASE t \in NumericTags ->
                AcqDirect(window, Retain(refcount, v), heap, <<>>, FALSE)
          [] t = "Wayland" ->
                clone_handle(window)
          [] t = "AndroidNdk" ->
                IF ~CfgAndroid THEN AcqFail(PlatformMismatch("android"), <<>>)
                ELSE AcqDirect(window, Retain(refcount, v), heap, <<>>,
                               Freed(refcount, v))
          [] t \in AppleTags ->
                IF ~CfgApple THEN AcqFail(PlatformMismatch("apple"), <<>>)
                ELSE IF AttrOf(v) = "retain_nil" THEN AcqFail(RetainFailed, <<>>)
                ELSE AcqDirect(Raw(t, v), Retain(refcount, v), heap, <<>>,
                               Freed(refcount, v))
          [] t = "Web" ->
                IF ~CfgWasm THEN AcqFail(PlatformMismatch("wasm"), <<>>)
                ELSE LET a == AttrOf(WebOwner(v))
                         sel == Selector(v)
                         el == Lookup(SelectorValue(sel))
                         s == Alloc(heap)
                     IN  IF a \in {"no_window", "no_document"}
                         THEN AcqFail(MissingWebElements, <<>>)
                         ELSE IF a = "strict" /\ ~WellFormed(sel)
                         THEN AcqFail(Panic, sel)
                         ELSE IF el = 0
                         THEN AcqFail(CanvasNotFound(v), sel)
                         ELSE AcqDirect(Raw("WebCanvas", s), refcount,
                                        Put(heap, s, el), sel, FALSE)
          [] t \in {"WebCanvas", "WebOffscreenCanvas"} ->
                IF ~CfgWasm THEN AcqFail(PlatformMismatch("wasm"), <<>>)
                ELSE LET s == Alloc(heap)
                     IN  AcqDirect(Raw(t, s), refcount,
                                   Put(heap, s, Deref(heap, v)), <<>>,
                                   Deref(heap, v) = 0)
          [] OTHER ->
                AcqFail(RawErr("NotSupported"), <<>>)

\* Mutant: the element found by the query is cloned before it is stored.
inc_refcount_extra_clone(window) ==
    LET t == window.tag
        v == window.val
    IN  CASE t \in NumericTags ->
                AcqDirect(window, refcount, heap, <<>>, FALSE)
          [] t = "Wayland" ->
                clone_handle(window)
          [] t = "AndroidNdk" ->
                IF ~CfgAndroid THEN AcqFail(PlatformMismatch("android"), <<>>)
                ELSE AcqDirect(window, Retain(refcount, v), heap, <<>>,
                               Freed(refcount, v))
          [] t \in AppleTags ->
                IF ~CfgApple THEN AcqFail(PlatformMismatch("apple"), <<>>)
                ELSE IF AttrOf(v) = "retain_nil" THEN AcqFail(RetainFailed, <<>>)
                ELSE AcqDirect(Raw(t, v), Retain(refcount, v), heap, <<>>,
                               Freed(refcount, v))
          [] t = "Web" ->
                IF ~CfgWasm THEN AcqFail(PlatformMismatch("wasm"), <<>>)
                ELSE LET a == AttrOf(WebOwner(v))
                         sel == Selector(v)
                         el == Lookup(SelectorValue(sel))
                         s == Alloc(heap)
                     IN  IF a \in {"no_window", "no_document"}
                         THEN AcqFail(MissingWebElements, <<>>)
                         ELSE IF a = "strict" /\ ~WellFormed(sel)
                         THEN AcqFail(Panic, sel)
                         ELSE IF el = 0
                         THEN AcqFail(CanvasNotFound(v), sel)
                         ELSE AcqDirect(Raw("WebCanvas", Alloc(Put(heap, s, el))), refcount,
                                        Put(Put(heap, s, el), Alloc(Put(heap, s, el)), el),
                                        sel, FALSE)
          [] t \in {"WebCanvas", "WebOffscreenCanvas"} ->
                IF ~CfgWasm THEN AcqFail(PlatformMismatch("wasm"), <<>>)
                ELSE LET s == Alloc(heap)
                     IN  AcqDirect(Raw(t, s), refcount,
                                   Put(heap, s, Deref(heap, v)), <<>>,
                                   Deref(heap, v) = 0)
          [] OTHER ->
                AcqFail(RawErr("NotSupported"), <<>>)

inc_refcount(window) ==
    LET t == window.tag
        v == window.val
    IN  CASE t \in NumericTags ->
                AcqDirect(window, refcount, heap, <<>>, FALSE)
          [] t = "Wayland" ->
                clone_handle(window)
          [] t = "AndroidNdk" ->
                IF ~CfgAndroid THEN AcqFail(PlatformMismatch("android"), <<>>)
                ELSE AcqDirect(window, Retain(refcount, v), heap, <<>>,
                               Freed(refcount, v))
          [] t \in AppleTags ->
                IF ~CfgApple THEN AcqFail(PlatformMismatch("apple"), <<>>)
                ELSE IF AttrOf(v) = "retain_nil" THEN AcqFail(RetainFailed, <<>>)
                ELSE AcqDirect(Raw(t, v), Retain(refcount, v), heap, <<>>,
                               Freed(refcount, v))
          [] t = "Web" ->
                IF ~CfgWasm THEN AcqFail(PlatformMismatch("wasm"), <<>>)
                ELSE LET a == AttrOf(WebOwner(v))
                         sel == Selector(v)
                         el == Lookup(SelectorValue(sel))
                         s == Alloc(heap)
                     IN  IF a \in {"no_window", "no_document"}
                         THEN AcqFail(MissingWebElements, <<>>)
                         ELSE IF a = "strict" /\ ~WellFormed(sel)
                         THEN AcqFail(Panic, sel)
                         ELSE IF el = 0
                         THEN AcqFail(CanvasNotFound(v), sel)
                         ELSE AcqDirect(Raw("WebCanvas", s), refcount,
                                        Put(heap, s, el), sel, FALSE)
          [] t \in {"WebCanvas", "WebOffscreenCanvas"} ->
                IF ~CfgWasm THEN AcqFail(PlatformMismatch("wasm"), <<>>)
                ELSE LET s == Alloc(heap)
                     IN  AcqDirect(Raw(t, s), refcount,
                                   Put(heap, s, Deref(heap, v)), <<>>,
                                   Deref(heap, v) = 0)
          [] OTHER ->
                AcqFail(RawErr("NotSupported"), <<>>)

(***************************************************************************)
(* dec_refcount                                                            *)
(***************************************************************************)
Rel(res, rc, hp, bad) ==
    [res |-> res, rc |-> rc, hp |-> hp, rel |-> IF res = Ok THEN 1 ELSE 0,
     bad |-> bad]

RelFail(res) == Rel(res, refcount, heap, FALSE)

\* Mutant: release answers Ok without giving the reference back.
dec_refcount_noop(window) == Rel(Ok, refcount, heap, FALSE)

\* Mutant: release gives the reference back twice.
dec_refcount_twice(window) ==
    LET t == window.tag
        v == window.val
    IN  IF Refcounted(t)
        THEN Rel(Ok, Release(Release(refcount, v), v), heap,
                 Freed(Release(refcount, v), v))
        ELSE IF Slotted(t)
        THEN Rel(Ok, refcount, [s \in Slots |-> IF heap[s] = Deref(heap, v) THEN 0 ELSE heap[s]],
                 Deref(heap, v) = 0)
        ELSE Rel(Ok, refcount, heap, FALSE)

dec_refcount(window) ==
    LET t == window.tag
        v == window.val
    IN  CASE t \in NumericTags ->
                Rel(Ok, refcount, heap, FALSE)
          [] t = "Wayland" ->
                RelFail(Panic)
          [] t = "AndroidNdk" ->
                IF ~CfgAndroid THEN RelFail(PlatformMismatch("android"))
                ELSE Rel(Ok, Release(refcount, v), heap, Freed(refcount, v))
          [] t \in AppleTags ->
                IF ~CfgApple THEN RelFail(PlatformMismatch("apple"))
                ELSE Rel(Ok, Release(refcount, v), heap, Freed(refcount, v))
          [] t = "Web" ->
                RelFail(Panic)
          [] t \in {"WebCanvas", "WebOffscreenCanvas"} ->
                IF ~CfgWasm THEN RelFail(PlatformMismatch("wasm"))
                ELSE Rel(Ok, refcount, Put(heap, v, 0), Deref(heap, v) = 0)
          [] OTHER ->
                RelFail(RawErr("NotSupported"))

(***************************************************************************)
(* State                                                                   *)
(***************************************************************************)
NoInst == [state |-> "free", imp |-> "None", raw |-> NoRaw, orig |-> NoRaw, obj |-> 0]

\* A value that has been dropped: only the object it stood for is remembered.
Gone(w) == [NoInst EXCEPT !.state = "dropped", !.obj = w]

NoProbe == [input |-> NoRaw, out |-> NoRaw, inc |-> NoRes, dec |-> NoRes]

Live(i) == inst[i].state = "live"
FreeInsts == {i \in Insts : inst[i].state = "free"}
NextInst == CHOOSE i \in FreeInsts : \A j \in FreeInsts : i <= j

FreeWins == {w \in Wins : win[w].state = "none"}

\* The handle a live window's window_handle() yields.
RawOf(w) == Raw(win[w].tag, win[w].val)

Last(op, w, src, i, input, res, view, query, calls) ==
    [op |-> op, w |-> w, src |-> src, i |-> i, input |-> input, res |-> res,
     view |-> view, query |-> query, calls |-> calls]

Bump(f, w, n) == IF w \in Wins THEN [f EXCEPT ![w] = @ + n] ELSE f

Init ==
    /\ target \in Targets
    /\ feature_wayland \in BOOLEAN
    /\ debug_assertions \in BOOLEAN
    /\ kind \in Tags
    /\ win = [w \in Wins |-> NoWin]
    /\ refcount = [w \in Wins |-> 0]
    /\ heap = [s \in Slots |-> 0]
    /\ inst = [i \in Insts |-> NoInst]
    /\ acquires = [w \in Wins |-> 0]
    /\ releases = [w \in Wins |-> 0]
    /\ freedUse = FALSE
    /\ panicked = FALSE
    /\ last = Last("init", 0, 0, 0, NoRaw, NoRes, NoRaw, <<>>, <<>>)
    /\ probe = NoProbe

(***************************************************************************)
(* The handle provider: a window of the windowing library                  *)
(***************************************************************************)
\* event_loop.create_window(..): the window holds one reference of its own.
CreateWindow(w, a) ==
    /\ ~panicked
    /\ w \in FreeWins /\ \A u \in FreeWins : w <= u
    /\ a \in Attrs(kind)
    /\ LET t == kind
           s == IF Slotted(t) THEN Alloc(heap) ELSE 0
           v == IF Slotted(t) THEN s ELSE IF t = "Web" THEN WebId(w) ELSE w
       IN  /\ win' = [win EXCEPT ![w] = [state |-> "live", tag |-> t, val |-> v,
                                          attr |-> a, own |-> 1, late |-> 0]]
           /\ refcount' = [refcount EXCEPT ![w] = IF Refcounted(t) THEN 1 ELSE 0]
           /\ heap' = Put(heap, s, w)
    /\ last' = Last("create_window", w, 0, 0, NoRaw, Ok, NoRaw, <<>>, <<>>)
    /\ UNCHANGED <<build, inst, acquires, releases, freedUse, panicked, probe>>

\* drop(window): the window is gone; the reference it held is given back
\* unless the platform keeps the object for itself.
DropWindow(w, keep) ==
    /\ ~panicked
    /\ win[w].state = "live"
    /\ keep => (Refcounted(win[w].tag) \/ Slotted(win[w].tag))
    /\ LET giveUp == IF keep THEN 0 ELSE 1
       IN  /\ win' = [win EXCEPT ![w].state = "dropped", ![w].own = 1 - giveUp]
           /\ refcount' = IF Refcounted(win[w].tag) /\ ~keep
                          THEN Release(refcount, w) ELSE refcount
           /\ heap' = IF Slotted(win[w].tag) /\ ~keep
                      THEN Put(heap, win[w].val, 0) ELSE heap
    /\ last' = Last("drop_window", w, 0, 0, NoRaw, Ok, NoRaw, <<>>, <<>>)
    /\ UNCHANGED <<build, inst, acquires, releases, freedUse, panicked, probe>>

(***************************************************************************)
(* OwnedWindowHandle                                                       *)
(***************************************************************************)
\* Mutant: the handle is stored as it came, with no acquire of its own.
_new_shared(handle) ==
    IF inc_refcount(handle).res = Ok
    THEN Acq(Ok, inc_refcount(handle).imp, handle, refcount, heap, <<>>, FALSE)
    ELSE inc_refcount(handle)

\* _new: Ok(Self { imp: inc_refcount(handle)? })
_new(handle) == inc_refcount(handle)

\* OwnedWindowHandle::new(&window), herr being what window.window_handle() fails with.
New(w, herr) ==
    /\ ~panicked
    /\ win[w].state = "live"
    /\ FreeInsts # {}
    /\ IF herr # "none"
       THEN /\ last' = Last("new", w, 0, 0, NoRaw, RawErr(herr), NoRaw, <<>>, <<>>)
            /\ UNCHANGED <<build, win, refcount, heap, inst, acquires, releases,
                           freedUse, panicked, probe>>
       ELSE LET r == _new(RawOf(w))
                i == NextInst
            IN  /\ refcount' = r.rc
                /\ heap' = r.hp
                /\ inst' = IF r.res = Ok
                           THEN [inst EXCEPT ![i] = [state |-> "live", imp |-> r.imp,
                                    raw |-> r.raw, orig |-> RawOf(w), obj |-> w]]
                           ELSE inst
                /\ acquires' = Bump(acquires, w, r.acq)
                /\ freedUse' = (freedUse \/ r.bad)
                /\ panicked' = (r.res = Panic)
                /\ last' = Last("new", w, 0, IF r.res = Ok THEN i ELSE 0, RawOf(w),
                                r.res, NoRaw, r.query, <<"inc_refcount">>)
                /\ UNCHANGED <<build, win, releases, probe>>

\* Mutant: a tracked Wayland handle is cloned by acquiring again from its pointer.
TryClone_reacquire(j) ==
    /\ ~panicked
    /\ Live(j)
    /\ FreeInsts # {}
    /\ LET i == NextInst
           w == inst[j].obj
           r == _new(inst[j].raw)
       IN  /\ refcount' = r.rc
           /\ heap' = r.hp
           /\ inst' = IF r.res = Ok
                      THEN [inst EXCEPT ![i] = [state |-> "live", imp |-> r.imp,
                               raw |-> r.raw, orig |-> inst[j].raw, obj |-> w]]
                      ELSE inst
           /\ acquires' = Bump(acquires, w, r.acq)
           /\ freedUse' = (freedUse \/ r.bad)
           /\ panicked' = (r.res = Panic)
           /\ last' = Last("try_clone", w, j, IF r.res = Ok THEN i ELSE 0,
                           inst[j].raw, r.res, NoRaw, r.query, <<"inc_refcount">>)
           /\ UNCHANGED <<build, win, releases, probe>>

\* OwnedWindowHandle::try_clone(&self)
TryClone(j) ==
    /\ ~panicked
    /\ Live(j)
    /\ FreeInsts # {}
    /\ LET i == NextInst
           w == inst[j].obj
           direct == inst[j].imp = "Direct"
           r == IF direct THEN _new(inst[j].raw)
                ELSE Acq(Ok, "Wayland", inst[j].raw,
                         Retain(refcount, inst[j].raw.val), heap, <<>>, FALSE)
       IN  /\ refcount' = r.rc
           /\ heap' = r.hp
           /\ inst' = IF r.res = Ok
                      THEN [inst EXCEPT ![i] = [state |-> "live", imp |-> r.imp,
                               raw |-> r.raw, orig |-> inst[j].raw, obj |-> w]]
                      ELSE inst
           /\ acquires' = Bump(acquires, w, r.acq)
           /\ freedUse' = (freedUse \/ r.bad)
           /\ panicked' = (r.res = Panic)
           /\ last' = Last("try_clone", w, j, IF r.res = Ok THEN i ELSE 0,
                           inst[j].raw, r.res, NoRaw, r.query,
                           IF direct THEN <<"inc_refcount">> ELSE <<>>)
           /\ UNCHANGED <<build, win, releases, probe>>

\* Mutant: the result of the release is unwrapped in every configuration.
Drop_unwraps(j) ==
    /\ ~panicked
    /\ Live(j)
    /\ LET w == inst[j].obj
           direct == inst[j].imp = "Direct"
           r == IF direct THEN dec_refcount(inst[j].raw)
                ELSE Rel(Ok, Release(refcount, inst[j].raw.val), heap, FALSE)
       IN  /\ refcount' = r.rc
           /\ heap' = r.hp
           /\ inst' = [inst EXCEPT ![j] = Gone(w)]
           /\ win' = IF win[w].state = "dropped"
                     THEN [win EXCEPT ![w].late = @ + 1] ELSE win
           /\ releases' = Bump(releases, w, r.rel)
           /\ freedUse' = (freedUse \/ r.bad)
           /\ panicked' = (r.res # Ok)
           /\ last' = Last("drop", w, j, j, inst[j].raw, r.res, NoRaw, <<>>,
                           IF direct THEN <<"dec_refcount">> ELSE <<>>)
           /\ UNCHANGED <<build, acquires, probe>>

\* impl Drop for OwnedWindowHandle, then the drop of its fields.
Drop(j) ==
    /\ ~panicked
    /\ Live(j)
    /\ LET w == inst[j].obj
           direct == inst[j].imp = "Direct"
           r == IF direct THEN dec_refcount(inst[j].raw)
                ELSE Rel(Ok, Release(refcount, inst[j].raw.val), heap, FALSE)
       IN  /\ refcount' = r.rc
           /\ heap' = r.hp
           /\ inst' = [inst EXCEPT ![j] = Gone(w)]
           /\ win' = IF win[w].state = "dropped"
                     THEN [win EXCEPT ![w].late = @ + 1] ELSE win
           /\ releases' = Bump(releases, w, r.rel)
           /\ freedUse' = (freedUse \/ r.bad)
           /\ panicked' = (r.res = Panic \/ (debug_assertions /\ r.res # Ok))
           /\ last' = Last("drop", w, j, j, inst[j].raw, r.res, NoRaw, <<>>,
                           IF direct THEN <<"dec_refcount">> ELSE <<>>)
           /\ UNCHANGED <<build, acquires, probe>>

\* impl HasWindowHandle for OwnedWindowHandle
WindowHandle(j) ==
    /\ ~panicked
    /\ Live(j)
    /\ LET r == IF inst[j].imp = "Direct"
                THEN [res |-> Ok, view |-> inst[j].raw]
                ELSE as_ptr(inst[j].raw)
       IN  last' = Last("window_handle", inst[j].obj, j, j, inst[j].raw, r.res,
                        r.view, <<>>,
                        IF inst[j].imp = "Direct" THEN <<>> ELSE <<"as_ptr">>)
    /\ UNCHANGED <<build, win, refcount, heap, inst, acquires, releases, freedUse,
                   panicked, probe>>

Next ==
    \/ \E w \in Wins, a \in {"ok", "bad_id", "no_data", "retain_nil",
            "found", "absent", "strict", "no_window", "no_document"} :
            CreateWindow(w, a)
    \/ \E w \in Wins, keep \in BOOLEAN : DropWindow(w, keep)
    \/ \E w \in Wins, herr \in {"none", "NotSupported", "Unavailable"} : New(w, herr)
    \/ \E j \in Insts : TryClone(j)
    \/ \E j \in Insts : Drop(j)
    \/ \E j \in Insts : WindowHandle(j)

Spec == Init /\ [][Next]_vars

(***************************************************************************)
(* inc_refcount and dec_refcount as functions of an arbitrary handle: the  *)
(* two are called directly on the handle a window hands out.               *)
(***************************************************************************)
ProbeAcquire(w) ==
    /\ win[w].state = "live"
    /\ probe.inc = NoRes
    /\ LET r == inc_refcount(RawOf(w))
       IN  /\ probe' = [input |-> RawOf(w), inc |-> r.res, dec |-> NoRes,
                        out |-> IF r.res = Ok THEN r.raw ELSE RawOf(w)]
           /\ refcount' = r.rc
           /\ heap' = r.hp
           /\ acquires' = Bump(acquires, w, r.acq)
           /\ freedUse' = (freedUse \/ r.bad)
    /\ UNCHANGED <<build, win, inst, releases, panicked, last>>

ProbeRelease(w) ==
    /\ win[w].state = "live"
    /\ probe.inc # NoRes /\ probe.dec = NoRes
    /\ LET r == dec_refcount(probe.out)
       IN  /\ probe' = [probe EXCEPT !.dec = r.res]
           /\ refcount' = r.rc
           /\ heap' = r.hp
           /\ releases' = Bump(releases, w, r.rel)
           /\ freedUse' = (freedUse \/ r.bad)
    /\ UNCHANGED <<build, win, inst, acquires, panicked, last>>

NextFn ==
    \/ \E w \in Wins, a \in {"ok", "bad_id", "no_data", "retain_nil",
            "found", "absent", "strict", "no_window", "no_document"} :
            CreateWindow(w, a)
    \/ \E w \in Wins : ProbeAcquire(w)
    \/ \E w \in Wins : ProbeRelease(w)

SpecFn == Init /\ [][NextFn]_vars

(***************************************************************************)
(* Drop on a value built around an arbitrary handle: inside the crate      *)
(* OwnedWindowHandle { imp: Impl::Direct(handle) } can be written for any  *)
(* handle, which is how a release that fails is put in front of Drop.      *)
(***************************************************************************)
Forge(w) ==
    /\ ~panicked
    /\ win[w].state = "live"
    /\ FreeInsts # {}
    /\ inst' = [inst EXCEPT ![NextInst] = [state |-> "live", imp |-> "Direct",
                    raw |-> RawOf(w), orig |-> RawOf(w), obj |-> w]]
    /\ last' = Last("forge", w, 0, NextInst, RawOf(w), Ok, NoRaw, <<>>, <<>>)
    /\ UNCHANGED <<build, win, refcount, heap, acquires, releases, freedUse,
                   panicked, probe>>

NextDrop ==
    \/ \E w \in Wins, a \in {"ok", "bad_id", "no_data", "retain_nil",
            "found", "absent", "strict", "no_window", "no_document"} :
            CreateWindow(w, a)
    \/ \E w \in Wins, herr \in {"none", "NotSupported", "Unavailable"} : New(w, herr)
    \/ \E w \in Wins : Forge(w)
    \/ \E j \in Insts : TryClone(j)
    \/ \E j \in Insts : Drop(j)

SpecDrop == Init /\ [][NextDrop]_vars

(***************************************************************************)
(* Properties                                                              *)
(***************************************************************************)
LiveOn(w) == {i \in Insts : Live(i) /\ inst[i].obj = w}
Made(w) == {i \in Insts : inst[i].state # "free" /\ inst[i].obj = w}
DroppedOn(w) == {i \in Made(w) : inst[i].state = "dropped"}
SlotsOf(w) == {s \in Slots : heap[s] = w}

\* The kinds for which the platform keeps a count of references in this build.
Counted == Refcounted(kind) \/ (kind \in WebTags /\ CfgWasm)

\* References the platform holds on w's object, and those the window itself holds.
PlatformRefs(w) == IF Refcounted(kind) THEN refcount[w] ELSE Cardinality(SlotsOf(w))
OwnRefs(w) == IF Refcounted(kind) \/ Slotted(kind) THEN win[w].own ELSE 0

\* The JavaScript class of the object a web window stands for, and the class
\* dec_refcount rebuilds from a stored handle before dropping it.
JsKind(w) == IF win[w].tag = "WebOffscreenCanvas" THEN "OffscreenCanvas"
             ELSE "HtmlCanvasElement"
FromAbi(t) == IF t = "WebOffscreenCanvas" THEN "OffscreenCanvas"
              ELSE IF t = "WebCanvas" THEN "HtmlCanvasElement" ELSE "none"

\* C1: OwnedWindowHandle::new followed by the drop of the handle it returned, with
\* no other handle ever made for the object, has performed exactly one acquire
\* and exactly one release, and the platform's count of references on the
\* object is back at what the window itself holds.
C1_NewThenDrop ==
    \A w \in Wins : \A i \in Insts :
        (Made(w) = {i} /\ inst[i].state = "dropped")
            => /\ acquires[w] = 1
               /\ releases[w] = 1
               /\ Counted => PlatformRefs(w) = OwnRefs(w)

C1_Witness ==
    \E w \in Wins : \E i \in Insts :
        /\ Made(w) = {i} /\ inst[i].state = "dropped"
        /\ last.op = "drop" /\ last.src = i
        /\ Counted

\* C2: in every state each live OwnedWindowHandle accounts for exactly one
\* outstanding acquire: acquires minus releases on an object equals the number of
\* live instances of it, the platform's count is the window's own references
\* plus one per live instance, and on the web every live instance holds a
\* reference slot of its own.
C2_OneAcquirePerInstance ==
    \A w \in Wins :
        /\ acquires[w] - releases[w] = Cardinality(LiveOn(w))
        /\ Counted => PlatformRefs(w) = OwnRefs(w) + Cardinality(LiveOn(w))
        /\ \A i \in LiveOn(w) : \A j \in LiveOn(w) :
              (i # j /\ Slotted(inst[i].raw.tag)) => inst[i].raw.val # inst[j].raw.val

C2_Witness ==
    \E w \in Wins :
        /\ last.op = "try_clone" /\ last.res = Ok /\ last.w = w
        /\ Cardinality(LiveOn(w)) = 2
        /\ Counted

\* The object behind a live instance is still there for it.
Valid(i) ==
    LET r == inst[i].raw
    IN  CASE Refcounted(r.tag) -> ~Freed(refcount, r.val)
          [] Slotted(r.tag) -> Deref(heap, r.val) = inst[i].obj
          [] OTHER -> r = inst[i].orig

\* C3: try_clone never fails on an instance that construction accepted, and every
\* live instance stays valid whatever other instances of the same object have
\* been dropped, in whatever order.
C3_CloneIndependent ==
    /\ last.op = "try_clone" => last.res = Ok
    /\ \A i \in Insts : Live(i) => Valid(i)

C3_Witness ==
    \E i \in Insts :
        /\ last.op = "drop" /\ last.res = Ok
        /\ Live(i) /\ inst[i].obj = last.w /\ i # last.src
        /\ Slotted(kind) /\ inst[i].orig # RawOf(last.w)
        /\ win[last.w].state = "dropped" /\ win[last.w].own = 0

\* The scenario of examples/util: two handles made from a live window, the window
\* dropped, then both handles dropped.
Scenario(w) ==
    /\ win[w].state = "dropped"
    /\ Cardinality(Made(w)) = 2
    /\ DroppedOn(w) = Made(w)
    /\ win[w].late = 2

NativeCounted == (kind = "AndroidNdk" /\ CfgAndroid) \/ (kind \in AppleTags /\ CfgApple)

\* C4 as claimed: after the scenario no acquire or release has touched a freed or
\* null payload, and on Android and Apple the object's count is what it was before
\* the first construction (the one reference the window was created with).
C4_Original ==
    \A w \in Wins :
        Scenario(w) => /\ ~freedUse
                       /\ NativeCounted => refcount[w] = 1

\* C4, amended: after the scenario no acquire or release has touched a freed or
\* null payload, and on Android and Apple the two handles have given back exactly
\* the two references they took: the count is what the source window itself
\* still holds (its value before the first construction, less the reference
\* the window gave up when it was dropped).
C4_Scenario ==
    \A w \in Wins :
        Scenario(w) => /\ ~freedUse
                       /\ acquires[w] = 2 /\ releases[w] = 2
                       /\ NativeCounted => refcount[w] = win[w].own

C4_Witness ==
    \E w \in Wins : Scenario(w) /\ NativeCounted /\ last.op = "drop"

\* C5: a release happens only as part of the drop of a live instance, once for
\* that instance: a step that counts a release, lowers a platform count or frees
\* a reference slot is a drop (or the window giving up its own reference), no
\* other operation does, and one drop gives back exactly one reference.
C5_ReleaseOnlyAtDrop ==
    [][ LET j == last'.src
            lowered == \E w \in Wins : refcount'[w] < refcount[w]
            freed == {s \in Slots : heap[s] # 0 /\ heap'[s] = 0}
        IN  /\ (releases' # releases) =>
                  /\ last'.op = "drop"
                  /\ j \in Insts /\ Live(j) /\ inst'[j].state = "dropped"
                  /\ releases' = Bump(releases, inst[j].obj, 1)
            /\ (lowered \/ freed # {}) => last'.op \in {"drop", "drop_window"}
            /\ last'.op \in {"new", "try_clone", "window_handle"} =>
                  /\ releases' = releases
                  /\ \A i \in Insts : Live(i) => inst'[i] = inst[i]
            /\ last'.op = "drop" =>
                  /\ \A w \in Wins : refcount'[w] >= refcount[w] - 1
                  /\ Cardinality(freed) <= 1
      ]_vars

C5_Witness ==
    \E w \in Wins :
        /\ last.op = "drop" /\ last.res = Ok /\ last.w = w
        /\ Cardinality(DroppedOn(w)) = 2
        /\ releases[w] = 2
        /\ Counted

\* A variant whose platform is compiled out of this build, and the platform
\* name its PlatformMismatch carries.
CompiledOut(t) ==
    \/ t = "AndroidNdk" /\ ~CfgAndroid
    \/ t \in AppleTags /\ ~CfgApple
    \/ t \in WebTags /\ ~CfgWasm

ExpectedPlatform(t) ==
    CASE t = "AndroidNdk" -> "android"
      [] t \in AppleTags -> "apple"
      [] t \in WebTags -> "wasm"
      [] OTHER -> ""

Probed == probe.inc # NoRes /\ probe.dec # NoRes

C7_WaylandNotRust ==
    (/\ last.op = "new" /\ last.input.tag = "Wayland" /\ CfgWayland
     /\ AttrOf(last.w) \in {"bad_id", "no_data"}) =>
        /\ last.res = WaylandNotRust
        /\ last.i = 0
        /\ Made(last.w) = {}
        /\ acquires[last.w] = 0
        /\ refcount[last.w] = OwnRefs(last.w)

C7_Witness ==
    /\ last.op = "new" /\ last.res = WaylandNotRust
    /\ AttrOf(last.w) = "no_data"
    /\ win[last.w].state = "live"

\* The selector the documentation of the adapter gives for an id.
ExpectedSelector(id) == SelectorHead \o Decimal(id) \o <<"\"", "]">>

\* C8: a Web handle whose canvas is absent makes new fail with CanvasNotFound(id),
\* the document having been queried with exactly canvas[data-raw-handle="<id>"].
C8_Selector ==
    last.res.kind = "CanvasNotFound" =>
        /\ last.op = "new" /\ last.input.tag = "Web"
        /\ last.res.id = last.input.val
        /\ last.query = ExpectedSelector(last.input.val)

Borrowed == last.op = "window_handle" /\ last.src \in Insts /\ inst[last.src].imp = "Direct"

\* C9 as claimed: window_handle() on a live non-Wayland instance succeeds and its
\* view is the handle that was passed to construction, tag and fields.
C9_Original ==
    Borrowed => /\ last.res = Ok
                /\ last.view = inst[last.src].orig

\* C9, amended: window_handle() on a live non-Wayland instance succeeds and its
\* view is the handle acquire stored in the instance.  That is the handle passed
\* to construction for Xlib, Xcb, Win32, Drm, AndroidNdk, AppKit and UiKit; on
\* the web it is a WebCanvas handle (for Web and WebCanvas) or a
\* WebOffscreenCanvas handle whose payload is the instance's own reference to
\* the same canvas, not the payload that was passed in.
C9_Borrow ==
    Borrowed =>
        LET i == last.src
            o == inst[i].orig
            v == last.view
        IN  /\ last.res = Ok
            /\ v = inst[i].raw
            /\ IF o.tag \in WebTags
               THEN /\ v.tag = (IF o.tag = "Web" THEN "WebCanvas" ELSE o.tag)
                    /\ Deref(heap, v.val) = inst[i].obj
                    /\ Slotted(o.tag) => v.val # o.val
               ELSE v = o

C9_Witness ==
    /\ Borrowed
    /\ inst[last.src].orig.tag = "Web"
    /\ last.view.tag = "WebCanvas"

\* C10: no failure of new, try_clone or window_handle is a panic.
C10_NoPanic ==
    panicked => last.op \notin {"new", "try_clone", "window_handle"}

\* C11: when the release run by Drop returns an error, the drop panics in a build
\* with debug_assertions and goes on silently in a build without; in both the
\* release was attempted exactly once.
C11_DropFailure ==
    (last.op = "drop" /\ last.res.kind \notin {"Ok", "Panic"}) =>
        /\ panicked = debug_assertions
        /\ Count(last.calls, "dec_refcount") = 1
        /\ releases[last.w] = 0

C11_Witness ==
    /\ last.op = "drop"
    /\ last.res = PlatformMismatch("android")
    /\ ~debug_assertions
    /\ ~panicked

\* C12: in a build without the Wayland module, new on a Wayland handle fails
\* with WaylandNotEnabled, and no OwnedWindowHandle is ever Impl::Wayland.
C12_WaylandDisabled ==
    ~CfgWayland =>
        /\ (last.op = "new" /\ last.input.tag = "Wayland") =>
                (last.res = WaylandNotEnabled /\ last.i = 0)
        /\ \A i \in Insts : inst[i].imp # "Wayland"

C12_Witness ==
    /\ ~CfgWayland
    /\ kind = "Wayland"
    /\ last.op = "new"
    /\ last.input.tag = "Wayland"
    /\ last.res = WaylandNotEnabled
    /\ \A i \in Insts : inst[i].state = "free"

\* C13: for a variant none of the arms names, inc_refcount (and so new) fails
\* with NotSupported, and dec_refcount fails with NotSupported; neither touches
\* the platform.
C13_Unknown ==
    kind \in UnknownTags =>
        /\ (last.op = "new" /\ last.input # NoRaw) =>
                /\ last.res = Res("Raw", "", 0, "NotSupported")
                /\ last.i = 0
        /\ last.op = "drop" => last.res = Res("Raw", "", 0, "NotSupported")
        /\ \A w \in Wins : refcount[w] = 0 /\ acquires[w] = 0 /\ releases[w] = 0
        /\ \A i \in Insts : inst[i].state = "live" => inst[i].raw = inst[i].orig

C13_Witness ==
    /\ kind \in UnknownTags
    /\ last.op = "new"
    /\ last.input.tag \in UnknownTags
    /\ last.res = Res("Raw", "", 0, "NotSupported")
    /\ \E i \in Insts : inst[i].state = "dropped"

\* C14: when the provider's window_handle() fails, new returns that very error
\* inside Error, calls nothing, builds no value and leaves the platform alone.
C14_ProviderError ==
    [][\A w \in Wins, herr \in {"NotSupported", "Unavailable"} :
        New(w, herr) =>
            /\ last'.res.kind = "Raw"
            /\ last'.res.raw = herr
            /\ last'.calls = <<>>
            /\ UNCHANGED <<refcount, heap, inst, acquires, releases, panicked>>]_vars

C14_Witness ==
    /\ last.op = "new"
    /\ last.input = NoRaw
    /\ last.res.kind = "Raw"
    /\ last.res.raw = "Unavailable"
    /\ last.calls = <<>>
    /\ \A w \in Wins : acquires[w] = 0

\* C15: try_clone of an Impl::Wayland value copies the tracked pair without
\* calling inc_refcount and always succeeds; dropping an Impl::Wayland value
\* never calls dec_refcount.
C15_WaylandTracked ==
    /\ (last.op = "try_clone" /\ last.input.tag = "Wayland") =>
            /\ last.res = Ok
            /\ last.calls = <<>>
            /\ last.i \in Insts
            /\ inst[last.i].imp = "Wayland"
            /\ inst[last.i].raw = inst[last.src].raw
    /\ (last.op = "drop" /\ last.input.tag = "Wayland") =>
            /\ last.res = Ok
            /\ last.calls = <<>>
            /\ ~panicked

C15_Witness ==
    /\ last.op = "try_clone"
    /\ last.input.tag = "Wayland"
    /\ win[last.w].state = "dropped"
    /\ last.res = Ok
    /\ inst[last.i].imp = "Wayland"

\* C16: window_handle() on an Impl::Wayland value fails with Unavailable exactly
\* when the tracked id's pointer is null (the surface is gone), and otherwise
\* yields a Wayland handle carrying that non-null pointer.
C16_WaylandBorrow ==
    (last.op = "window_handle" /\ inst[last.src].imp = "Wayland") =>
        IF win[inst[last.src].obj].state = "live"
        THEN /\ last.res = Ok
             /\ last.view = Raw("Wayland", inst[last.src].obj)
             /\ last.view.val # 0
        ELSE /\ last.res = Res("Raw", "", 0, "Unavailable")
             /\ last.view = NoRaw

C16_Witness ==
    /\ last.op = "window_handle"
    /\ inst[last.src].imp = "Wayland"
    /\ inst[last.src].state = "live"
    /\ acquires[last.w] >= 1
    /\ last.res = Res("Raw", "", 0, "Unavailable")

\* C17: for Xlib, XCB, Win32 and DRM handles acquire and release leave the
\* platform untouched, the value holds the payload it was given, new and
\* try_clone always succeed, and the release at drop succeeds as well, also
\* once the source window is gone.
C17_Numeric ==
    kind \in NumericTags =>
        /\ \A w \in Wins : refcount[w] = 0
        /\ \A s \in Slots : heap[s] = 0
        /\ ~freedUse /\ ~panicked
        /\ \A i \in Insts : Live(i) =>
                /\ inst[i].imp = "Direct"
                /\ inst[i].raw = Raw(kind, inst[i].obj)
                /\ inst[i].raw = inst[i].orig
        /\ (last.op \in {"new", "try_clone"} /\ last.input # NoRaw) =>
                (last.res = Ok /\ Live(last.i))
        /\ last.op = "drop" =>
                (last.res = Ok /\ last.calls = <<"dec_refcount">>)

C17_Witness ==
    /\ kind \in NumericTags
    /\ last.op = "drop"
    /\ last.res = Ok
    /\ win[last.w].state = "dropped"
    /\ win[last.w].late = 2

\* C18: on the web each successful acquire takes exactly one reference: for an
\* id-only Web handle the one the lookup returned, stored as WebCanvas; for a
\* WebCanvas or WebOffscreenCanvas handle one new clone stored under the same
\* tag, so that the release rebuilds and drops an object of the class it is.
C18_WebReferences ==
    (CfgWasm /\ kind \in WebTags) =>
        /\ \A w \in Wins :
              Cardinality(SlotsOf(w)) = OwnRefs(w) + Cardinality(LiveOn(w))
        /\ \A i \in Insts : Live(i) =>
              /\ inst[i].raw.tag =
                    (IF inst[i].orig.tag = "Web" THEN "WebCanvas" ELSE inst[i].orig.tag)
              /\ inst[i].raw.val # inst[i].orig.val
              /\ Deref(heap, inst[i].raw.val) = inst[i].obj
              /\ FromAbi(inst[i].raw.tag) = JsKind(inst[i].obj)
        /\ last.op = "drop" =>
              /\ last.res = Ok
              /\ FromAbi(last.input.tag) = JsKind(last.w)
              /\ Deref(heap, last.input.val) = 0

C18_Witness ==
    /\ CfgWasm
    /\ last.op = "new"
    /\ last.input.tag = "Web"
    /\ last.res = Ok
    /\ inst[last.i].raw.tag = "WebCanvas"
    /\ Cardinality(SlotsOf(last.w)) = 1
    /\ \E i \in Insts : inst[i].state = "dropped"

\* C19: on an Apple target acquire retains the view: it fails with RetainFailed
\* exactly when retain answers null, a value that was built holds the pointer
\* retain answered, and its drop sends one release to that pointer.
C19_AppleRetain ==
    (CfgApple /\ kind \in AppleTags) =>
        /\ \A w \in Wins : refcount[w] = OwnRefs(w) + Cardinality(LiveOn(w))
        /\ \A i \in Insts : Live(i) =>
              /\ inst[i].raw = Raw(kind, inst[i].obj)
              /\ AttrOf(inst[i].obj) # "retain_nil"
        /\ (last.op \in {"new", "try_clone"} /\ last.input # NoRaw) =>
              /\ last.res = (IF AttrOf(last.w) = "retain_nil" THEN RetainFailed ELSE Ok)
              /\ last.res = RetainFailed => last.i = 0
        /\ last.op = "drop" =>
              /\ last.res = Ok
              /\ last.input = Raw(kind, last.w)
              /\ last.calls = <<"dec_refcount">>
        /\ ~freedUse

C19_Witness ==
    /\ CfgApple /\ kind \in AppleTags
    /\ last.op = "drop"
    /\ last.res = Ok
    /\ acquires[last.w] = 2 /\ releases[last.w] = 1
    /\ refcount[last.w] = OwnRefs(last.w) + 1

\* C20: the handle inside an Impl::Direct value is never a Wayland handle, an
\* id-only Web handle, a handle of a platform compiled out of this build, or a
\* variant the crate does not know; so the dec_refcount run by Drop returns Ok,
\* reaches no unreachable!() and the unwrap of debug builds does not panic.
C20_ReleaseNeverFails ==
    /\ \A i \in Insts : (Live(i) /\ inst[i].imp = "Direct") =>
          /\ inst[i].raw.tag \notin {"Wayland", "Web"}
          /\ ~CompiledOut(inst[i].raw.tag)
          /\ inst[i].raw.tag \notin UnknownTags
    /\ last.op = "drop" => (last.res = Ok /\ ~panicked)

C20_Witness ==
    /\ debug_assertions
    /\ kind = "Web"
    /\ last.op = "drop"
    /\ last.input.tag = "WebCanvas"
    /\ last.calls = <<"dec_refcount">>
    /\ last.res = Ok
    /\ ~panicked

\* C21: a new or try_clone that returns an error leaves every platform count
\* and reference slot as it was, takes no acquire and builds no value.
C21_FailureLeavesNoTrace ==
    [][(last'.op \in {"new", "try_clone"} /\ last'.res.kind \notin {"Ok", "Panic"}) =>
            /\ UNCHANGED <<refcount, heap, inst, acquires, releases, win>>
            /\ last'.i = 0]_vars

C21_Witness ==
    /\ last.op = "new"
    /\ last.res = WaylandNotRust
    /\ refcount[last.w] = 1
    /\ acquires[last.w] = 0
    /\ \A i \in Insts : inst[i].state = "free"

====
